---- MODULE Spec2Model ----
(***************************************************************************)
(* DermSight retrieval and indexing subsystem.                             *)
(*   - Index Builder   (BACKEND/core/create_local_embeddings.py)           *)
(*   - Hybrid Retriever (BACKEND/core/hybrid_retrieval.py)                 *)
(*   - Chunker         (BACKEND/core/chunk_texts.py)                       *)
(*   - Reranker        (BACKEND/core/query_engine.py)                      *)
(* The persisted artifacts are modelled as files that are absent, corrupt  *)
(* (unreadable) or hold a value.                                           *)
(***************************************************************************)
EXTENDS Integers, Sequences, FiniteSets, TLC

\* ------------------------------------------------------------------ bounds
\* Total number of surrogate keys the builder may hand out in one behaviour.
MaxAssigned == 3

\* Number of times an artifact may become unreadable in one behaviour.
MaxFaults == 1

\* chunk ids and passage texts of the feed ("" is the empty text the builder skips)
ChunkIds == {"d1_c0", "d1_c1"}
Texts == {"", "t1", "t2"}

VARIABLES
    \* --- persisted artifacts
    feed,            \* dermsight_chunks_meta.jsonl : sequence of [id, text]
    indexFile,       \* index.faiss      : sequence of [key, vec]
    metaFile,        \* chunks.json      : sequence of [id, text, sha]
    idMapFile,       \* id_to_index.json : chunk_id -> surrogate key
    shaFile,         \* id_to_sha.json   : chunk_id -> fingerprint
    revMapFile,      \* faiss_to_chunkid.json : str(surrogate key) -> chunk_id
    chunksDictFile,  \* chunks_dict.json : chunk_id -> record
    pklCache,        \* faiss_metadata.pkl : cached copy of chunks.json
    whooshIx,        \* Whoosh directory : sequence of [id, text] documents
    \* --- the last Index Builder run
    new_chunks,      \* main(): new_chunks of the last run that read the feed
    runStatus,       \* how the last run of main() ended
    feedAtRun,       \* all_chunks as read by the last run
    assigned,        \* every surrogate key passed to add_with_ids, in order
    faults,          \* how many times an artifact became unreadable
    \* --- the serving process (hybrid_retrieval module globals)
    r_loaded,        \* the module has been imported (global load done)
    embedder,        \* TRUE: SentenceTransformer loaded, FALSE: None
    faiss_index,     \* loaded vector index, Absent for None
    metadata,        \* loaded passage list
    whoosh_index,    \* TRUE: an open Whoosh index handle, FALSE: None
    \* --- the last hybrid_search call
    top_k, I_keys, faiss_hits, whoosh_hits, final_results,
    \* --- chunk_texts: one call of chunk_file_content(full_text, doc_id)
    doc,             \* full_text: sequence of heading and sentence tokens
    c_pc,            \* "file": in chunk_file_content, "text": in chunk_text, "done"
    split_i,         \* index into splits of the section handled next (0: preamble)
    final_chunks,    \* chunk_file_content: final_chunks
    context_prefix,  \* chunk_text: context_prefix, as its sequence of words
    sentences,       \* chunk_text: sentences not yet visited by the for loop
    chunks, cur_sentences, cur_words, ov_count,  \* chunk_text locals
    \* --- query_engine: one call of rerank(query, candidates, keep_n)
    rr_pc,           \* "call": entered, "done": returned
    candidates,      \* the candidate list (annotated in place with rerank_score)
    keep_n,
    rr_result,       \* the returned list
    predict_calls,   \* how many times reranker.predict was invoked
    \* --- query_engine: session storage
    HISTORY_STORE,   \* session_id -> list of [role, content]
    turn_log,        \* per session, every turn ever passed to add_to_history
    \* --- query_engine: module globals set at import
    q_loaded,        \* the module has been imported
    GROQ_API_KEY,    \* TRUE: a key was found in the environment
    chunks_dict, faiss_to_chunkid, fallback_index,
    \* --- query_engine: the last generate_answer call
    ga_calls,        \* how many calls were made
    ga_query, ga_session,
    ga_return,       \* the returned text, as its sequence of words
    context_text,    \* generate_answer: context_text of the prompt
    ga_reranked,     \* generate_answer: the texts of reranked, the passages kept
    retrieve_calls, rerank_calls, groq_calls, ollama_calls, \* during the call
    \* --- request threads in the tail of generate_answer (lines 356-362)
    t_pc,            \* per thread: <<phase, step>>, <<"-", "idle">> or <<"-", "done">>
    t_session,       \* per thread: session_id of its request
    t_query, t_answer,
    \* --- one generate_answer call followed phase by phase
    g_pc,            \* "-" (no call yet) or the phase the call is in
    g_trace,         \* the phases the call has entered, in order
    g_retrieved,     \* generate_answer: retrieved
    \* --- an Index Builder run followed write by write
    b_pc,            \* "idle" or the artifact main() writes next
    b_mem,           \* main(): faiss_idx, saved_chunks, id_to_index, id_to_sha
    b_cut,           \* where the last run that was stopped stopped, and its feed
    \* --- chunk_texts.process_all
    json_dir         \* source files: doc_id (file stem) -> chunks of its text

builderVars == <<feed, indexFile, metaFile, idMapFile, shaFile, revMapFile,
                 chunksDictFile, pklCache, whooshIx, new_chunks, runStatus,
                 feedAtRun, assigned>>

retrVars == <<r_loaded, embedder, faiss_index, metadata, whoosh_index>>

searchVars == <<top_k, I_keys, faiss_hits, whoosh_hits, final_results>>

chunkCallVars == <<doc, c_pc, split_i, final_chunks, context_prefix, sentences,
                   chunks, cur_sentences, cur_words, ov_count>>

chunkVars == <<chunkCallVars, json_dir>>

rerankVars == <<rr_pc, candidates, keep_n, rr_result, predict_calls>>

histVars == <<HISTORY_STORE, turn_log>>

engineVars == <<q_loaded, GROQ_API_KEY, chunks_dict, faiss_to_chunkid, fallback_index>>

answerVars == <<ga_calls, ga_query, ga_session, ga_return, context_text, ga_reranked,
                retrieve_calls, rerank_calls, groq_calls, ollama_calls>>

threadVars == <<t_pc, t_session, t_query, t_answer>>

phaseVars == <<g_pc, g_trace, g_retrieved>>

sessionVars == <<histVars, engineVars, answerVars, threadVars, phaseVars>>

runVars == <<b_pc, b_mem, b_cut>>

\* what the Index Builder and the feed writers never touch
nonBuilderVars == <<retrVars, searchVars, chunkVars, rerankVars, sessionVars, runVars>>

vars == <<builderVars, faults, nonBuilderVars>>

\* ------------------------------------------------------------------ helpers
EmptyMap == [x \in {} |-> 0]

Range(f) == {f[x] : x \in DOMAIN f}

MaxOf(S) == CHOOSE m \in S : \A y \in S : y <= m

MapPut(m, k, v) == [x \in (DOMAIN m) \cup {k} |-> IF x = k THEN v ELSE m[x]]

Absent == [st |-> "absent", val |-> <<>>]

Corrupt == [st |-> "corrupt", val |-> <<>>]

Ok(v) == [st |-> "ok", val |-> v]

\* ------------------------------------------------------------ Index Builder
\* sha256 of the text: deterministic, distinct texts give distinct digests
sha_of_text(s) == <<"sha256", s>>

\* model.encode followed by normalize_L2: a deterministic function of the text
Embed(text) == <<"vec", text>>

load_existing_meta ==
    [saved_chunks |-> IF metaFile.st = "ok" THEN metaFile.val ELSE <<>>,
     id_to_index  |-> IF idMapFile.st = "ok" THEN idMapFile.val ELSE EmptyMap,
     id_to_sha    |-> IF shaFile.st = "ok" THEN shaFile.val ELSE EmptyMap]

\* mutant: the stored fingerprints are ignored, every valid record is new
IsNewOrChanged_NoSkip(c, existing_shas) ==
    c.id # "" /\ c.text # ""

\* mutant: a known chunk_id is skipped without comparing fingerprints
IsNewOrChanged_IdOnly(c, existing_shas) ==
    /\ c.id # "" /\ c.text # ""
    /\ c.id \notin DOMAIN existing_shas

\* step 5 of main(): is feed record c new or changed w.r.t. the stored SHAs
IsNewOrChanged(c, existing_shas) ==
    /\ c.id # "" /\ c.text # ""
    /\ ~(c.id \in DOMAIN existing_shas /\ existing_shas[c.id] = sha_of_text(c.text))

IdentifyNew(all_chunks, existing_shas) ==
    LET sel == SelectSeq(all_chunks, LAMBDA c : IsNewOrChanged(c, existing_shas))
    IN  [i \in 1..Len(sel) |->
            [id |-> sel[i].id, text |-> sel[i].text, sha |-> sha_of_text(sel[i].text)]]

\* "Initialize or Load Index": an unreadable index resets saved_chunks and
\* id_to_index (id_to_sha is left as loaded)
OpenIndex(st) ==
    IF indexFile.st = "ok"
    THEN [faiss_idx |-> indexFile.val, saved_chunks |-> st.saved_chunks,
          id_to_index |-> st.id_to_index]
    ELSE IF indexFile.st = "corrupt"
    THEN [faiss_idx |-> <<>>, saved_chunks |-> <<>>, id_to_index |-> EmptyMap]
    ELSE [faiss_idx |-> <<>>, saved_chunks |-> st.saved_chunks,
          id_to_index |-> st.id_to_index]

NextFaissId(id_to_index) ==
    IF DOMAIN id_to_index # {} THEN MaxOf(Range(id_to_index)) + 1 ELSE 1

IdsArray(next_faiss_id, n) == [i \in 1..n |-> next_faiss_id + i - 1]

\* the "Update Metadata Maps" loop, one map at a time
RECURSIVE PutAll(_, _, _)
PutAll(m, ks, vs) ==
    IF ks = <<>> THEN m
    ELSE PutAll(MapPut(m, Head(ks), Head(vs)), Tail(ks), Tail(vs))

SeqIds(cs) == [i \in 1..Len(cs) |-> cs[i].id]

SeqShas(cs) == [i \in 1..Len(cs) |-> cs[i].sha]

AddWithIds(faiss_idx, cs, ids_array) ==
    faiss_idx \o [i \in 1..Len(cs) |->
                     [key |-> ids_array[i], vec |-> Embed(cs[i].text)]]

\* step 7: every saved chunk whose id is not yet in Whoosh is added
WhooshCatchUp(docs, saved_chunks) ==
    LET existing_whoosh_ids == {docs[i].id : i \in DOMAIN docs}
        missing == SelectSeq(saved_chunks, LAMBDA c : c.id \notin existing_whoosh_ids)
    IN  docs \o [i \in 1..Len(missing) |-> [id |-> missing[i].id, text |-> missing[i].text]]

\* step 8: {str(v): k for k, v in id_to_index.items()}
ReverseMap(id_to_index) ==
    [s \in {ToString(v) : v \in Range(id_to_index)} |->
        CHOOSE c \in DOMAIN id_to_index : ToString(id_to_index[c]) = s]

\* step 8: {c["id"]: c for c in saved_chunks}, the last record of an id wins
ChunksDict(saved_chunks) ==
    [c \in {saved_chunks[i].id : i \in DOMAIN saved_chunks} |->
        saved_chunks[MaxOf({i \in DOMAIN saved_chunks : saved_chunks[i].id = c})]]

\* step 8: os.remove(PKL_CACHE) when it exists
ClearPklCache_Kept(pkl) == pkl

ClearPklCache(pkl) == Absent

\* One invocation of main(). modelOk: SentenceTransformer(MODEL_NAME) loaded.
BuilderRun(modelOk) ==
    IF ~modelOk
    THEN /\ runStatus' = "model_failed"
         /\ UNCHANGED <<feed, indexFile, metaFile, idMapFile, shaFile, revMapFile,
                        chunksDictFile, pklCache, whooshIx, new_chunks, feedAtRun,
                        assigned, faults, nonBuilderVars>>
    ELSE IF feed = <<>>
    THEN /\ runStatus' = "no_chunks"
         /\ feedAtRun' = feed
         /\ new_chunks' = <<>>
         /\ UNCHANGED <<feed, indexFile, metaFile, idMapFile, shaFile, revMapFile,
                        chunksDictFile, pklCache, whooshIx, assigned, faults, nonBuilderVars>>
    ELSE
      LET st0 == load_existing_meta
          nc == IdentifyNew(feed, st0.id_to_sha)
          opened == IF nc # <<>> THEN OpenIndex(st0)
                    ELSE [faiss_idx |-> <<>>, saved_chunks |-> st0.saved_chunks,
                          id_to_index |-> st0.id_to_index]
          next_faiss_id == NextFaissId(opened.id_to_index)
          ids_array == IdsArray(next_faiss_id, Len(nc))
          id_to_index == PutAll(opened.id_to_index, SeqIds(nc), ids_array)
          id_to_sha == PutAll(st0.id_to_sha, SeqIds(nc), SeqShas(nc))
          saved_chunks == opened.saved_chunks \o nc
      IN  /\ Len(assigned) + Len(nc) <= MaxAssigned
          /\ runStatus' = "done"
          /\ feedAtRun' = feed
          /\ new_chunks' = nc
          /\ assigned' = assigned \o ids_array
          /\ IF nc # <<>>
             THEN /\ indexFile' = Ok(AddWithIds(opened.faiss_idx, nc, ids_array))
                  /\ metaFile' = Ok(saved_chunks)
                  /\ idMapFile' = Ok(id_to_index)
                  /\ shaFile' = Ok(id_to_sha)
             ELSE UNCHANGED <<indexFile, metaFile, idMapFile, shaFile>>
          /\ whooshIx' = Ok(WhooshCatchUp(whooshIx.val, saved_chunks))
          /\ revMapFile' = Ok(ReverseMap(id_to_index))
          /\ chunksDictFile' = Ok(ChunksDict(saved_chunks))
          /\ pklCache' = ClearPklCache(pklCache)
          /\ UNCHANGED <<feed, faults, nonBuilderVars>>

\* ------------------------------------------------------------- environment
FeedIds == {feed[i].id : i \in DOMAIN feed}

\* chunk_texts.process_all appends one record per chunk to the feed
FeedAppend(id, text) ==
    /\ id \notin FeedIds
    /\ feed' = Append(feed, [id |-> id, text |-> text])
    /\ UNCHANGED <<indexFile, metaFile, idMapFile, shaFile, revMapFile,
                   chunksDictFile, pklCache, whooshIx, new_chunks, runStatus,
                   feedAtRun, assigned, faults, nonBuilderVars>>

\* the text of a passage changes under the same chunk_id
FeedChange(i, text) ==
    /\ i \in DOMAIN feed
    /\ feed[i].text # text
    /\ feed' = [feed EXCEPT ![i].text = text]
    /\ UNCHANGED <<indexFile, metaFile, idMapFile, shaFile, revMapFile,
                   chunksDictFile, pklCache, whooshIx, new_chunks, runStatus,
                   feedAtRun, assigned, faults, nonBuilderVars>>

BuilderInit ==
    /\ feed = <<>>
    /\ indexFile = Absent
    /\ metaFile = Absent
    /\ idMapFile = Absent
    /\ shaFile = Absent
    /\ revMapFile = Absent
    /\ chunksDictFile = Absent
    /\ pklCache = Absent
    /\ whooshIx = Absent
    /\ new_chunks = <<>>
    /\ runStatus = "none"
    /\ feedAtRun = <<>>
    /\ assigned = <<>>
    /\ faults = 0
    /\ b_pc = "idle"
    /\ b_mem = <<>>
    /\ b_cut = [pc |-> "none", feed |-> <<>>]

RetrieverInit ==
    /\ r_loaded = FALSE
    /\ embedder = FALSE
    /\ faiss_index = Absent
    /\ metadata = <<>>
    /\ whoosh_index = FALSE
    /\ top_k = 0
    /\ I_keys = <<>>
    /\ faiss_hits = <<>>
    /\ whoosh_hits = <<>>
    /\ final_results = <<>>

\* no document is being chunked
ChunkerIdle ==
    /\ doc = <<>>
    /\ c_pc = "done"
    /\ split_i = 0
    /\ final_chunks = <<>>
    /\ context_prefix = <<>>
    /\ sentences = <<>>
    /\ chunks = <<>>
    /\ cur_sentences = <<>>
    /\ cur_words = 0
    /\ ov_count = 0
    /\ json_dir = EmptyMap

\* rerank is not being called
RerankIdle ==
    /\ rr_pc = "done"
    /\ candidates = <<>>
    /\ keep_n = 0
    /\ rr_result = <<>>
    /\ predict_calls = 0

Sessions == {"s1", "s2"}

Threads == {1, 2}

\* HISTORY_STORE = {} at import
SessionInit ==
    /\ HISTORY_STORE = EmptyMap
    /\ turn_log = [sid \in Sessions |-> <<>>]
    /\ q_loaded = FALSE
    /\ GROQ_API_KEY = FALSE
    /\ chunks_dict = EmptyMap
    /\ faiss_to_chunkid = EmptyMap
    /\ fallback_index = Absent
    /\ ga_calls = 0
    /\ ga_query = <<>>
    /\ ga_session = ""
    /\ ga_return = <<>>
    /\ context_text = <<>>
    /\ ga_reranked = <<>>
    /\ retrieve_calls = 0
    /\ rerank_calls = 0
    /\ groq_calls = 0
    /\ ollama_calls = 0
    /\ t_pc = [t \in Threads |-> <<"-", "idle">>]
    /\ t_session = [t \in Threads |-> ""]
    /\ t_query = [t \in Threads |-> <<>>]
    /\ t_answer = [t \in Threads |-> <<>>]
    /\ g_pc = "-"
    /\ g_trace = <<>>
    /\ g_retrieved = <<>>

Init == BuilderInit /\ RetrieverInit /\ ChunkerIdle /\ RerankIdle /\ SessionInit

Next ==
    \/ \E modelOk \in BOOLEAN : BuilderRun(modelOk)
    \/ \E id \in ChunkIds, text \in Texts : FeedAppend(id, text)
    \/ \E i \in 1..Cardinality(ChunkIds), text \in Texts : FeedChange(i, text)

Spec == Init /\ [][Next]_vars

\* ------------------------------------------------------- unreadable artifacts
\* index.faiss exists but faiss.read_index raises on it
CorruptIndexFile ==
    /\ faults < MaxFaults
    /\ faults' = faults + 1
    /\ indexFile.st = "ok"
    /\ indexFile' = Corrupt
    /\ UNCHANGED <<feed, metaFile, idMapFile, shaFile, revMapFile, chunksDictFile,
                   pklCache, whooshIx, new_chunks, runStatus, feedAtRun, assigned,
                   nonBuilderVars>>

\* id_to_index.json exists but json.load raises on it
CorruptIdMapFile ==
    /\ faults < MaxFaults
    /\ faults' = faults + 1
    /\ idMapFile.st = "ok"
    /\ idMapFile' = Corrupt
    /\ UNCHANGED <<feed, indexFile, metaFile, shaFile, revMapFile, chunksDictFile,
                   pklCache, whooshIx, new_chunks, runStatus, feedAtRun, assigned,
                   nonBuilderVars>>

NextFault ==
    \/ Next
    \/ CorruptIndexFile
    \/ CorruptIdMapFile

SpecFault == Init /\ [][NextFault]_vars

\* ---------------------------------------------------------- Hybrid Retriever
\* Largest result limit a query asks for.
MaxTopK == 2

Min(a, b) == IF a <= b THEN a ELSE b

\* all sequences of n distinct elements of S
InjSeqs(S, n) == {q \in [1..n -> S] : \A i, j \in 1..n : q[i] = q[j] => i = j}

\* load_faiss(): raises when index.faiss is missing or unreadable, or when
\* neither the pickle cache nor chunks.json can be read; otherwise returns the
\* index and the passage list, refreshing the pickle cache from chunks.json
load_faiss ==
    IF indexFile.st # "ok"
    THEN [raised |-> TRUE, metadata |-> <<>>, pkl |-> pklCache]
    ELSE IF pklCache.st = "ok"
    THEN [raised |-> FALSE, metadata |-> pklCache.val, pkl |-> pklCache]
    ELSE IF metaFile.st # "ok"
    THEN [raised |-> TRUE, metadata |-> <<>>, pkl |-> pklCache]
    ELSE [raised |-> FALSE, metadata |-> metaFile.val, pkl |-> Ok(metaFile.val)]

\* load_whoosh(): None when the directory is missing, else index.open_dir,
\* which raises on a directory that holds no index
load_whoosh ==
    [raised |-> whooshIx.st = "empty", handle |-> whooshIx.st = "ok"]

\* the global load of hybrid_retrieval: embedder, faiss_index, metadata,
\* whoosh_index
GlobalLoad(embOk) ==
    LET lf == load_faiss
    IN  /\ r_loaded' = TRUE
        /\ embedder' = embOk
        /\ IF lf.raised \/ load_whoosh.raised
           THEN /\ faiss_index' = Absent
                /\ metadata' = <<>>
                /\ whoosh_index' = FALSE
           ELSE /\ faiss_index' = Ok(indexFile.val)
                /\ metadata' = lf.metadata
                /\ whoosh_index' = load_whoosh.handle
        /\ pklCache' = lf.pkl
        /\ top_k' = 0 /\ I_keys' = <<>> /\ faiss_hits' = <<>>
        /\ whoosh_hits' = <<>> /\ final_results' = <<>>

\* what the global load leaves alone among the builder's variables
loadFrame == <<feed, indexFile, metaFile, idMapFile, shaFile, revMapFile,
               chunksDictFile, whooshIx, new_chunks, runStatus, feedAtRun,
               assigned, faults, runVars>>

\* Import of hybrid_retrieval (start of a serving process).
RetrieverLoad(embOk) ==
    /\ GlobalLoad(embOk)
    /\ UNCHANGED <<loadFrame, chunkVars, rerankVars, sessionVars>>

\* semantic path: I[0] -> faiss_hits. The surrogate key idx is used as a
\* 0-based position in the passage list (metadata[idx]).
Hydrate(I, meta) ==
    LET kept == SelectSeq(I, LAMBDA idx : idx # -1 /\ idx < Len(meta))
    IN  [i \in 1..Len(kept) |->
            [id |-> meta[kept[i] + 1].id, text |-> meta[kept[i] + 1].text,
             source_type |-> "vector"]]

\* lexical path: the stored fields of every Whoosh hit
KeywordHits(docs, ranked) ==
    [i \in 1..Len(ranked) |->
        [id |-> docs[ranked[i]].id, text |-> docs[ranked[i]].text,
         source_type |-> "keyword"]]

\* combined_results[hit["text"]] = hit on an insertion-ordered dict
DictSet(d, hit) ==
    IF \E i \in DOMAIN d : d[i].text = hit.text
    THEN [i \in DOMAIN d |-> IF d[i].text = hit.text THEN hit ELSE d[i]]
    ELSE Append(d, hit)

RECURSIVE AddKeyword(_, _)
AddKeyword(d, hits) ==
    IF hits = <<>> THEN d ELSE AddKeyword(DictSet(d, Head(hits)), Tail(hits))

RECURSIVE AddVector(_, _)
AddVector(d, hits) ==
    IF hits = <<>> THEN d
    ELSE AddVector(IF \E i \in DOMAIN d : d[i].text = Head(hits).text
                   THEN d ELSE DictSet(d, Head(hits)),
                   Tail(hits))

\* mutant: the vector hits are inserted first, the keyword hits fill the gaps
Fuse_VectorFirst(w_hits, f_hits, k) ==
    LET combined == AddVector(AddKeyword(<<>>, f_hits), w_hits)
    IN  SubSeq(combined, 1, Min(k, Len(combined)))

\* step 3 of hybrid_search: merge, deduplicate by text, slice top_k
Fuse(w_hits, f_hits, k) ==
    LET combined == AddVector(AddKeyword(<<>>, w_hits), f_hits)
    IN  SubSeq(combined, 1, Min(k, Len(combined)))

\* the Whoosh documents a query may match, in rank order: at most `limit`
RankedLists(docs, limit) ==
    UNION {InjSeqs(DOMAIN docs, n) : n \in 0..Min(limit, Len(docs))}

\* hybrid_search(query, top_k=k). The query decides which index positions
\* FAISS ranks nearest (pos) and which Whoosh documents match, in rank order
\* (ranked); both are chosen freely here.
HybridSearch(k) ==
    /\ r_loaded
    /\ top_k' = k
    /\ IF ~embedder \/ faiss_index.st # "ok"
       THEN /\ I_keys' = <<>> /\ faiss_hits' = <<>> /\ whoosh_hits' = <<>>
            /\ final_results' = <<>>
       ELSE LET ntotal == Len(faiss_index.val)
                safe_k == Min(k, ntotal)
            IN  \E pos \in InjSeqs(1..ntotal, safe_k) :
                \E ranked \in (IF whoosh_index THEN RankedLists(whooshIx.val, 2 * k)
                               ELSE {<<>>}) :
                   LET I == [i \in 1..safe_k |-> faiss_index.val[pos[i]].key]
                       f_hits == Hydrate(I, metadata)
                       w_hits == KeywordHits(whooshIx.val, ranked)
                   IN  /\ I_keys' = I
                       /\ faiss_hits' = f_hits
                       /\ whoosh_hits' = w_hits
                       /\ final_results' = Fuse(w_hits, f_hits, k)
    /\ UNCHANGED <<builderVars, faults, runVars, retrVars, chunkVars, rerankVars, sessionVars>>

\* the feed holds passages (non-empty texts) and the embedding model loads
PassageTexts == Texts \ {""}

NextSearch ==
    \/ BuilderRun(TRUE)
    \/ \E id \in ChunkIds, text \in PassageTexts : FeedAppend(id, text)
    \/ \E i \in 1..Cardinality(ChunkIds), text \in PassageTexts : FeedChange(i, text)
    \/ \E embOk \in BOOLEAN : RetrieverLoad(embOk)
    \/ \E k \in 1..MaxTopK : HybridSearch(k)

SpecSearch == Init /\ [][NextSearch]_vars

\* ------------------------------------------------- lexical index unavailable
\* the Whoosh directory is there but holds no index (the case main() handles
\* with "Directory exists but empty")
EmptyDir == [st |-> "empty", val |-> <<>>]

WhooshIndexLost ==
    /\ faults < MaxFaults
    /\ faults' = faults + 1
    /\ whooshIx.st = "ok"
    /\ whooshIx' = EmptyDir
    /\ UNCHANGED <<feed, indexFile, metaFile, idMapFile, shaFile, revMapFile,
                   chunksDictFile, pklCache, new_chunks, runStatus, feedAtRun,
                   assigned, nonBuilderVars>>

NextDegraded ==
    \/ BuilderRun(TRUE)
    \/ \E id \in ChunkIds, text \in PassageTexts : FeedAppend(id, text)
    \/ \E embOk \in BOOLEAN : RetrieverLoad(embOk)
    \/ \E k \in 1..MaxTopK : HybridSearch(k)
    \/ WhooshIndexLost

SpecDegraded == Init /\ [][NextDegraded]_vars

\* ------------------------------------------------------------------ Chunker
MAX_WORDS == 200

OVERLAP_WORDS == 50

\* floor of effective_max in chunk_text
MinContentWords == 50

\* Longest document, in tokens (headings and sentences).
MaxTokens == 4

\* word counts of the sentences a document is made of
SentLens == {20, 50, 150}

\* headings of DERM_HEADINGS found at a line start, as their words
Headings == {<<"Treatment">>, <<"Differential", "Diagnosis">>}

DocId == "doc"

SentTok(w) == [kind |-> "sent", w |-> w, h |-> <<>>]

HeadTok(h) == [kind |-> "head", w |-> Len(h), h |-> h]

Tokens == {SentTok(w) : w \in SentLens} \cup {HeadTok(h) : h \in Headings}

Docs == UNION {[1..n -> Tokens] : n \in 0..MaxTokens}

\* words_count of a list of sentences joined by " "
WordsOf(sents) ==
    LET RECURSIVE Sum(_)
        Sum(q) == IF q = <<>> THEN 0 ELSE Head(q).w + Sum(Tail(q))
    IN  Sum(sents)

Max(a, b) == IF a >= b THEN a ELSE b

\* effective_max = max(50, max_words - context_len)
EffectiveMax(max_words, prefix) == Max(MinContentWords, max_words - Len(prefix))

\* the sentences sent_tokenize finds in the tokens strictly between a and b
SentsBetween(d, a, b) ==
    [i \in 1..(b - a - 1) |-> [pos |-> a + i, w |-> d[a + i].w]]

HeadPositions(d) ==
    SelectSeq([i \in 1..Len(d) |-> i], LAMBDA i : d[i].kind = "head")

\* re.split(pattern, full_text): [preamble, heading_1, content_1, ...]
Splits(d) ==
    LET hp == HeadPositions(d)
        first == IF hp = <<>> THEN Len(d) + 1 ELSE hp[1]
    IN  [pre |-> SentsBetween(d, 0, first),
         secs |-> [j \in 1..Len(hp) |->
                     [heading |-> d[hp[j]].h,
                      content |-> SentsBetween(d, hp[j],
                                     IF j < Len(hp) THEN hp[j + 1] ELSE Len(d) + 1)]]]

\* chunks.append(f"[{context_prefix}] {content}")
MakeChunk(prefix, sents) == [tag |-> prefix, body |-> sents]

\* the overlap window: sentences are popped off the end of the closed chunk
\* while ov_count < overlap_words
RECURSIVE OverlapWindow(_, _, _, _)
OverlapWindow(cur, overlap, ov, overlap_words) ==
    IF cur # <<>> /\ ov < overlap_words
    THEN OverlapWindow(SubSeq(cur, 1, Len(cur) - 1),
                       <<cur[Len(cur)]>> \o overlap,
                       ov + cur[Len(cur)].w, overlap_words)
    ELSE [overlap |-> overlap, ov_count |-> ov]

\* mutant: the trailing partial accumulation is not flushed
FinalFlush_Dropped(chs, cur, prefix) == chs

\* the flush after the for loop of chunk_text
FinalFlush(chs, cur, prefix) ==
    IF cur # <<>> THEN Append(chs, MakeChunk(prefix, cur)) ELSE chs

\* enter chunk_text(text, context_prefix=prefix)
CallChunkText(sents, prefix) ==
    /\ c_pc' = "text"
    /\ sentences' = sents
    /\ context_prefix' = prefix
    /\ chunks' = <<>>
    /\ cur_sentences' = <<>>
    /\ cur_words' = 0

\* chunk_file_content: the preamble, then one (heading, content) pair per
\* step; a section with no content is skipped
SectionStep ==
    LET sp == Splits(doc)
    IN  /\ c_pc = "file"
        /\ split_i <= Len(sp.secs)
        /\ IF split_i = 0
           THEN IF sp.pre # <<>>
                THEN CallChunkText(sp.pre, <<DocId, "-", "General">>)
                     /\ UNCHANGED split_i
                ELSE /\ split_i' = 1
                     /\ UNCHANGED <<c_pc, sentences, context_prefix, chunks,
                                    cur_sentences, cur_words>>
           ELSE IF sp.secs[split_i].content # <<>>
                THEN CallChunkText(sp.secs[split_i].content,
                                   <<DocId, "-">> \o sp.secs[split_i].heading)
                     /\ UNCHANGED split_i
                ELSE /\ split_i' = split_i + 1
                     /\ UNCHANGED <<c_pc, sentences, context_prefix, chunks,
                                    cur_sentences, cur_words>>
        /\ UNCHANGED <<doc, final_chunks, ov_count>>
        /\ UNCHANGED <<builderVars, faults, runVars, retrVars, searchVars, rerankVars, sessionVars,
                   json_dir>>

\* chunk_file_content after the loop: the fallback over the whole text when
\* nothing was chunked, else return final_chunks
FallbackOrReturn ==
    /\ c_pc = "file"
    /\ split_i = Len(Splits(doc).secs) + 1
    /\ IF final_chunks = <<>> /\ doc # <<>>
       THEN CallChunkText(SentsBetween(doc, 0, Len(doc) + 1), <<DocId>>)
            /\ UNCHANGED split_i
       ELSE /\ c_pc' = "done"
            /\ UNCHANGED <<split_i, sentences, context_prefix, chunks,
                           cur_sentences, cur_words>>
    /\ UNCHANGED <<doc, final_chunks, ov_count>>
    /\ UNCHANGED <<builderVars, faults, runVars, retrVars, searchVars, rerankVars, sessionVars,
                   json_dir>>

\* one iteration of "for sent in sentences"
SentenceStep ==
    /\ c_pc = "text"
    /\ sentences # <<>>
    /\ LET sent == Head(sentences)
           w == sent.w
           effective_max == EffectiveMax(MAX_WORDS, context_prefix)
       IN  IF cur_words + w <= effective_max
           THEN /\ cur_sentences' = Append(cur_sentences, sent)
                /\ cur_words' = cur_words + w
                /\ UNCHANGED <<chunks, ov_count>>
           ELSE LET win == IF OVERLAP_WORDS > 0
                           THEN OverlapWindow(cur_sentences, <<>>, 0, OVERLAP_WORDS)
                           ELSE [overlap |-> <<>>, ov_count |-> 0]
                IN  /\ chunks' = IF cur_sentences # <<>>
                                 THEN Append(chunks, MakeChunk(context_prefix, cur_sentences))
                                 ELSE chunks
                    /\ ov_count' = IF OVERLAP_WORDS > 0 THEN win.ov_count ELSE ov_count
                    /\ cur_sentences' = Append(win.overlap, sent)
                    /\ cur_words' = win.ov_count + w
    /\ sentences' = Tail(sentences)
    /\ UNCHANGED <<doc, c_pc, split_i, final_chunks, context_prefix>>
    /\ UNCHANGED <<builderVars, faults, runVars, retrVars, searchVars, rerankVars, sessionVars,
                   json_dir>>

\* chunk_text returns: final flush, final_chunks.extend(...)
ReturnChunks ==
    /\ c_pc = "text"
    /\ sentences = <<>>
    /\ LET result == FinalFlush(chunks, cur_sentences, context_prefix)
       IN  /\ chunks' = result
           /\ final_chunks' = final_chunks \o result
    /\ IF split_i = Len(Splits(doc).secs) + 1
       THEN c_pc' = "done" /\ UNCHANGED split_i
       ELSE c_pc' = "file" /\ split_i' = split_i + 1
    /\ UNCHANGED <<doc, context_prefix, sentences, cur_sentences, cur_words, ov_count>>
    /\ UNCHANGED <<builderVars, faults, runVars, retrVars, searchVars, rerankVars, sessionVars,
                   json_dir>>

\* chunk_file_content is called on any document
ChunkerInit ==
    /\ doc \in Docs
    /\ c_pc = "file"
    /\ split_i = 0
    /\ final_chunks = <<>>
    /\ context_prefix = <<>>
    /\ sentences = <<>>
    /\ chunks = <<>>
    /\ cur_sentences = <<>>
    /\ cur_words = 0
    /\ ov_count = 0
    /\ json_dir = EmptyMap

InitChunk == BuilderInit /\ RetrieverInit /\ ChunkerInit /\ RerankIdle /\ SessionInit

NextChunk ==
    \/ SectionStep
    \/ FallbackOrReturn
    \/ SentenceStep
    \/ ReturnChunks

SpecChunk == InitChunk /\ [][NextChunk]_vars

\* -------------------------------------------------------------- process_all
\* chunk_texts.process_all over the directory of extracted documents. A source
\* file is named <doc_id>.json by extract_text.process_pdfs; its text is given
\* by the list of chunks chunk_file_content returns for it.
DocStems == {"docA", "docB", "docC"}

\* Largest number of chunks of one document.
MaxChunks == 2

\* the chunk texts of a document with n chunks
ChunkTexts(doc_id, n) == [i \in 1..n |-> <<doc_id, "text", i>>]

\* chunk_id = f"{doc_id}_c{i}", i counted from 0
ChunkIdOf(doc_id, i) == <<doc_id, "_c", i>>

\* the records process_all writes for one file
FileRecords(doc_id, file_chunks) ==
    [i \in 1..Len(file_chunks) |->
        [id |-> ChunkIdOf(doc_id, i - 1), doc_id |-> doc_id, text |-> file_chunks[i]]]

\* mutant: no document is taken as already processed
AlreadyDoneIds_None(consolidated) == {}

\* step 1: the doc_ids found in the consolidated feed
AlreadyDoneIds(consolidated) == {consolidated[i].doc_id : i \in DOMAIN consolidated}

\* sorted(os.listdir(json_dir)): the stems in alphabetical order
RECURSIVE SortedStems(_)
SortedStems(S) ==
    IF S = {} THEN <<>>
    ELSE LET least == CHOOSE x \in S :
                 \A y \in S : x = y \/
                     (x = "docA" \/ (x = "docB" /\ y = "docC"))
         IN  <<least>> \o SortedStems(S \ {least})

\* step 3: the records appended for the files not yet in the feed
RECURSIVE NewRecords(_, _)
NewRecords(fnames, already_done_ids) ==
    IF fnames = <<>> THEN <<>>
    ELSE (IF Head(fnames) \in already_done_ids THEN <<>>
          ELSE FileRecords(Head(fnames), json_dir[Head(fnames)]))
         \o NewRecords(Tail(fnames), already_done_ids)

\* one run of process_all
process_all ==
    /\ feed' = feed \o NewRecords(SortedStems(DOMAIN json_dir), AlreadyDoneIds(feed))
    /\ UNCHANGED <<indexFile, metaFile, idMapFile, shaFile, revMapFile,
                   chunksDictFile, pklCache, whooshIx, new_chunks, runStatus,
                   feedAtRun, assigned, faults, nonBuilderVars>>

\* extract_text.process_pdfs writes <stem>.json for a new PDF (an existing
\* file is left alone)
SourceFileAdded(doc_id, n) ==
    /\ doc_id \notin DOMAIN json_dir
    /\ json_dir' = MapPut(json_dir, doc_id, ChunkTexts(doc_id, n))
    /\ UNCHANGED <<builderVars, faults, runVars, retrVars, searchVars, rerankVars,
                   sessionVars, chunkCallVars>>

NextProcess ==
    \/ \E doc_id \in DocStems, n \in 0..MaxChunks : SourceFileAdded(doc_id, n)
    \/ process_all

SpecProcess == Init /\ [][NextProcess]_vars

\* the chunk texts of the revised text of a document
RevisedTexts(doc_id, n) == [i \in 1..n |-> <<doc_id, "revised", i>>]

\* the source document changed and was extracted again (process_pdfs writes
\* <stem>.json once the old file is removed): the file of a known document now
\* holds the new text
SourceFileChanged(doc_id, n) ==
    /\ doc_id \in DOMAIN json_dir
    /\ json_dir[doc_id] # RevisedTexts(doc_id, n)
    /\ json_dir' = MapPut(json_dir, doc_id, RevisedTexts(doc_id, n))
    /\ UNCHANGED <<builderVars, faults, runVars, retrVars, searchVars, rerankVars,
                   sessionVars, chunkCallVars>>

NextReextract ==
    \/ \E doc_id \in DocStems, n \in 0..MaxChunks : SourceFileAdded(doc_id, n)
    \/ \E doc_id \in DocStems, n \in 1..MaxChunks : SourceFileChanged(doc_id, n)
    \/ process_all

SpecReextract == Init /\ [][NextReextract]_vars

\* ------------------------------------------------------------------ reranker
\* query_engine.rerank(query, candidates, keep_n)
MaxCands == 3
MaxKeepN == 3

\* cross-encoder scores, in tenths
Scores == {4, 7, 9}

CandTexts == {"p1", "p2", "p3"}

SeqsUpTo(S, n) == UNION {[1..m -> S] : m \in 0..n}

\* candidates[i]["rerank_score"] = float(s)
Annotate(cands, scores) ==
    [i \in DOMAIN cands |-> [text |-> cands[i].text, rerank_score |-> scores[i]]]

\* a variant of the sort that puts a candidate before those of equal score
InsertDesc_Unstable(sorted, c) ==
    LET before == {i \in DOMAIN sorted : sorted[i].rerank_score > c.rerank_score}
        n == Cardinality(before)
    IN  SubSeq(sorted, 1, n) \o <<c>> \o SubSeq(sorted, n + 1, Len(sorted))

\* insertion into a list sorted high to low, after every element whose score
\* is at least that of c (sorted() is stable, also with reverse=True)
InsertDesc(sorted, c) ==
    LET before == {i \in DOMAIN sorted : sorted[i].rerank_score >= c.rerank_score}
        n == Cardinality(before)
    IN  SubSeq(sorted, 1, n) \o <<c>> \o SubSeq(sorted, n + 1, Len(sorted))

RECURSIVE SortedByScore(_)
\* sorted(candidates, key=lambda x: x["rerank_score"], reverse=True)
SortedByScore(cands) ==
    IF cands = <<>> THEN <<>>
    ELSE InsertDesc(SortedByScore(SubSeq(cands, 1, Len(cands) - 1)),
                    cands[Len(cands)])

\* candidates[:keep_n]
Take(s, n) == SubSeq(s, 1, Min(n, Len(s)))

\* the whole call: early return on an empty list, else predict, annotate,
\* sort and truncate
rerank ==
    /\ rr_pc = "call"
    /\ rr_pc' = "done"
    /\ IF candidates = <<>>
       THEN /\ rr_result' = <<>>
            /\ UNCHANGED <<candidates, predict_calls>>
       ELSE \E scores \in [DOMAIN candidates -> Scores] :
               /\ predict_calls' = predict_calls + 1
               /\ candidates' = Annotate(candidates, scores)
               /\ rr_result' = Take(SortedByScore(candidates'), keep_n)
    /\ UNCHANGED keep_n
    /\ UNCHANGED <<builderVars, faults, runVars, retrVars, searchVars, chunkVars, sessionVars>>

\* rerank is called on any candidate list
RerankInit ==
    /\ rr_pc = "call"
    /\ candidates \in SeqsUpTo([text : CandTexts], MaxCands)
    /\ keep_n \in 0..MaxKeepN
    /\ rr_result = <<>>
    /\ predict_calls = 0

InitRerank == BuilderInit /\ RetrieverInit /\ ChunkerIdle /\ RerankInit /\ SessionInit

NextRerank == rerank

SpecRerank == InitRerank /\ [][NextRerank]_vars

\* ---------------------------------------------------------- session history
\* query_engine: HISTORY_STORE, get_session_history, add_to_history
HISTORY_CAP == 15

\* Largest number of turns appended to one session.
MaxTurns == 17

Roles == {"user", "assistant"}

\* mutant: the history is never trimmed
CapHistory_NoPop(h) == h

\* if len(HISTORY_STORE[session_id]) > 15: HISTORY_STORE[session_id].pop(0)
CapHistory(h) == IF Len(h) > HISTORY_CAP THEN Tail(h) ELSE h

\* the value of HISTORY_STORE after add_to_history(session_id, role, content)
AddToHistory(store, session_id, role, content) ==
    LET h0 == IF session_id \in DOMAIN store THEN store[session_id] ELSE <<>>
        h1 == Append(h0, [role |-> role, content |-> content])
    IN  MapPut(store, session_id, CapHistory(h1))

add_to_history(session_id, role, content) ==
    /\ Len(turn_log[session_id]) < MaxTurns
    /\ HISTORY_STORE' = AddToHistory(HISTORY_STORE, session_id, role, content)
    /\ turn_log' = [turn_log EXCEPT ![session_id] =
                        Append(@, [role |-> role, content |-> content])]
    /\ UNCHANGED <<builderVars, faults, runVars, retrVars, searchVars, chunkVars, rerankVars,
                   engineVars, answerVars, threadVars, phaseVars>>

\* the callers pass a user turn, then an assistant turn; the content of the
\* n-th turn of a session is told apart by n
NextRole(session_id) ==
    IF Len(turn_log[session_id]) % 2 = 0 THEN "user" ELSE "assistant"

NextContent(session_id) == <<"turn", Len(turn_log[session_id]) + 1>>

NextHistory ==
    \E sid \in Sessions : add_to_history(sid, NextRole(sid), NextContent(sid))

SpecHistory == Init /\ [][NextHistory]_vars

\* --------------------------------------------------------------- orchestrator
\* query_engine: import, retrieve, call_llm, generate_answer
TOP_K == 15
FINAL_CONTEXT == 5

\* Largest number of generate_answer calls.
MaxCalls == 1

\* import of query_engine (start of the service): hybrid_retrieval is imported
\* and runs its global load, the key is read from the environment and the
\* fallback resources are loaded, all three or none
QueryEngineImport(embOk, hasKey) ==
    /\ ~q_loaded
    /\ GlobalLoad(embOk)
    /\ q_loaded' = TRUE
    /\ GROQ_API_KEY' = hasKey
    /\ IF chunksDictFile.st = "ok" /\ revMapFile.st = "ok" /\ indexFile.st = "ok"
       THEN /\ chunks_dict' = chunksDictFile.val
            /\ faiss_to_chunkid' = revMapFile.val
            /\ fallback_index' = Ok(indexFile.val)
       ELSE /\ chunks_dict' = EmptyMap
            /\ faiss_to_chunkid' = EmptyMap
            /\ fallback_index' = Absent
    /\ UNCHANGED <<loadFrame, chunkVars, rerankVars, histVars, answerVars, threadVars,
                   phaseVars>>

\* every list hybrid_search(query, top_k=k) can return in the loaded state
HybridOutcomes(k) ==
    IF ~embedder \/ faiss_index.st # "ok"
    THEN {<<>>}
    ELSE LET ntotal == Len(faiss_index.val)
             safe_k == Min(k, ntotal)
         IN  {Fuse(KeywordHits(whooshIx.val, ranked),
                   Hydrate([i \in 1..safe_k |-> faiss_index.val[pos[i]].key], metadata),
                   k) :
                 pos \in InjSeqs(1..ntotal, safe_k),
                 ranked \in (IF whoosh_index THEN RankedLists(whooshIx.val, 2 * k)
                             ELSE {<<>>})}

\* the fallback loop of retrieve over the keys I[0] of fallback_index.search
FallbackHits(I) ==
    LET kept == SelectSeq(I, LAMBDA fid :
                    /\ ToString(fid) \in DOMAIN faiss_to_chunkid
                    /\ faiss_to_chunkid[ToString(fid)] \in DOMAIN chunks_dict)
    IN  [i \in 1..Len(kept) |-> chunks_dict[faiss_to_chunkid[ToString(kept[i])]]]

\* every list the fallback branch of retrieve can return
FallbackOutcomes ==
    IF fallback_index.st # "ok"
    THEN {<<>>}
    ELSE LET ntotal == Len(fallback_index.val)
         IN  {FallbackHits([i \in 1..ntotal |-> fallback_index.val[pos[i]].key]) :
                 pos \in InjSeqs(1..ntotal, ntotal)}

\* retrieve(query, top_k): the hybrid results when there are any, else the
\* fallback results; no failure is passed on to the caller
RetrieveOutcomes(k) ==
    LET hy == HybridOutcomes(k)
    IN  (hy \ {<<>>}) \cup (IF <<>> \in hy THEN FallbackOutcomes ELSE {})

\* rerank(query, candidates, keep_n) for the scores the cross-encoder gives
RerankOutcomes(cands, n) ==
    IF cands = <<>> THEN {<<>>}
    ELSE {Take(SortedByScore(Annotate(cands, scores)), n) :
             scores \in [DOMAIN cands -> Scores]}

GREETING_REPLY ==
    <<"Hello.", "I", "am", "the", "DermSight", "Clinical", "Assistant.">>

NO_CONTEXT == <<"No specific medical documents found for this query.">>

GROQ_KEY_ERROR == <<"Error:", "GROQ_API_KEY", "not", "found", "in", ".env", "file.">>

\* query_groq: the error text without a key, else the completion, "" on failure
\* (groqOk: the request succeeded with a non-empty completion)
query_groq(groqOk) ==
    IF ~GROQ_API_KEY THEN GROQ_KEY_ERROR
    ELSE IF groqOk THEN <<"groq", "answer">> ELSE <<>>

\* query_ollama: stdout of the local model, "" on failure
query_ollama(ollamaOk) == IF ollamaOk THEN <<"ollama", "answer">> ELSE <<>>

\* call_llm with PROVIDER = "groq"
call_llm(groqOk, ollamaOk) ==
    LET response == query_groq(groqOk)
    IN  IF response # <<>>
        THEN [text |-> response, groq |-> 1, ollama |-> 0]
        ELSE [text |-> query_ollama(ollamaOk), groq |-> 1, ollama |-> 1]

\* "\n\n".join of "[Source: ...]\n<text>" over the passages: for each passage
\* its source line, then its text
SourceBlocks(reranked) ==
    [i \in 1..(2 * Len(reranked)) |->
        IF i % 2 = 1 THEN "[Source: Medical DB]" ELSE reranked[i \div 2].text]

\* mutant: no marker for an empty context
ContextText_NoMarker(reranked) == SourceBlocks(reranked)

\* context_text of the prompt
ContextText(reranked) ==
    IF reranked = <<>> THEN NO_CONTEXT ELSE SourceBlocks(reranked)

\* user queries, as their words
Queries == {<<"hello">>, <<"psoriasis", "treatment">>,
            <<"hi", "what", "is", "eczema">>}

\* words in which fuzz.partial_ratio finds one of the greetings with a ratio
\* above 90 (the greeting is a substring of the word)
GreetingWords == {"hello", "hi"}

\* mutant: the shortcut is never taken
IsGreeting_Never(query) == FALSE

\* len(q_lower.split()) <= 2 and any(fuzz.partial_ratio(g, q_lower) > 90 ...)
IsGreeting(query) ==
    Len(query) <= 2 /\ \E i \in DOMAIN query : query[i] \in GreetingWords

\* one call of generate_answer(query, session_id)
generate_answer(query, session_id) ==
    /\ q_loaded
    /\ ga_calls < MaxCalls
    /\ ga_calls' = ga_calls + 1
    /\ ga_query' = query
    /\ ga_session' = session_id
    /\ IF IsGreeting(query)
       THEN /\ ga_return' = GREETING_REPLY
            /\ context_text' = <<>>
            /\ ga_reranked' = <<>>
            /\ retrieve_calls' = 0 /\ rerank_calls' = 0
            /\ groq_calls' = 0 /\ ollama_calls' = 0
       ELSE \E retrieved \in RetrieveOutcomes(TOP_K) :
            \E reranked \in RerankOutcomes(retrieved, FINAL_CONTEXT) :
            \E groqOk \in BOOLEAN, ollamaOk \in BOOLEAN :
               LET llm == call_llm(groqOk, ollamaOk)
               IN  /\ retrieve_calls' = 1 /\ rerank_calls' = 1
                   /\ ga_reranked' = [i \in DOMAIN reranked |-> reranked[i].text]
                   /\ context_text' = ContextText(reranked)
                   /\ groq_calls' = llm.groq /\ ollama_calls' = llm.ollama
                   /\ ga_return' = llm.text
    /\ HISTORY_STORE' = AddToHistory(AddToHistory(HISTORY_STORE, session_id, "user", query),
                                     session_id, "assistant", ga_return')
    /\ turn_log' = [turn_log EXCEPT ![session_id] =
                        @ \o <<[role |-> "user", content |-> query],
                               [role |-> "assistant", content |-> ga_return']>>]
    /\ UNCHANGED <<builderVars, faults, runVars, retrVars, searchVars, chunkVars, rerankVars,
                   engineVars, threadVars, phaseVars>>

NextAnswer ==
    \/ BuilderRun(TRUE)
    \/ \E id \in ChunkIds, text \in PassageTexts : FeedAppend(id, text)
    \/ \E embOk \in BOOLEAN, hasKey \in BOOLEAN : QueryEngineImport(embOk, hasKey)
    \/ \E query \in Queries, sid \in Sessions : generate_answer(query, sid)

SpecAnswer == Init /\ [][NextAnswer]_vars

\* ------------------------------------------- generate_answer, phase by phase
\* The same generate_answer, followed from phase to phase. The phases are the
\* sections of the function: the greeting test (IDLE), the construction of
\* search_query (AUGMENTING), retrieve (RETRIEVING), rerank (RERANKING), the
\* context and the prompt (PROMPTING), call_llm (COMPLETING) and the return.
Terminal == {"GREETING_SHORTCUT", "DONE"}

\* what a step of the call never touches
PhaseFrame ==
    UNCHANGED <<builderVars, faults, runVars, retrVars, searchVars, chunkVars, rerankVars,
                engineVars, threadVars, ga_calls, ga_query, ga_session>>

Enter(ph) ==
    /\ g_pc' = ph
    /\ g_trace' = Append(g_trace, ph)

\* add_to_history(session_id, "user", query); add_to_history(session_id,
\* "assistant", reply); return reply
ReturnAnswer(reply) ==
    /\ ga_return' = reply
    /\ HISTORY_STORE' = AddToHistory(AddToHistory(HISTORY_STORE, ga_session, "user", ga_query),
                                     ga_session, "assistant", reply)
    /\ turn_log' = [turn_log EXCEPT ![ga_session] =
                        @ \o <<[role |-> "user", content |-> ga_query],
                               [role |-> "assistant", content |-> reply]>>]

\* generate_answer(query, session_id) is called
CallArrives(query, session_id) ==
    /\ q_loaded
    /\ g_pc \in {"-"} \cup Terminal
    /\ ga_calls < MaxCalls
    /\ ga_calls' = ga_calls + 1
    /\ ga_query' = query
    /\ ga_session' = session_id
    /\ ga_return' = <<>> /\ context_text' = <<>> /\ ga_reranked' = <<>>
    /\ retrieve_calls' = 0 /\ rerank_calls' = 0
    /\ groq_calls' = 0 /\ ollama_calls' = 0
    /\ g_pc' = "IDLE"
    /\ g_trace' = <<"IDLE">>
    /\ g_retrieved' = <<>>
    /\ UNCHANGED <<builderVars, faults, runVars, retrVars, searchVars, chunkVars, rerankVars,
                   engineVars, threadVars, histVars>>

\* lines 209-220: history read, greeting bypass
GreetingTest ==
    /\ g_pc = "IDLE"
    /\ IF IsGreeting(ga_query)
       THEN /\ Enter("GREETING_SHORTCUT")
            /\ ReturnAnswer(GREETING_REPLY)
       ELSE /\ Enter("AUGMENTING")
            /\ UNCHANGED <<ga_return, histVars>>
    /\ UNCHANGED <<context_text, ga_reranked, retrieve_calls, rerank_calls, groq_calls,
                   ollama_calls, g_retrieved>>
    /\ PhaseFrame

\* lines 222-286: search_query is built from the query (and the image analysis)
Augment ==
    /\ g_pc = "AUGMENTING"
    /\ Enter("RETRIEVING")
    /\ UNCHANGED <<ga_return, histVars, context_text, ga_reranked, retrieve_calls,
                   rerank_calls, groq_calls, ollama_calls, g_retrieved>>
    /\ PhaseFrame

\* line 292: retrieved = retrieve(search_query, top_k=TOP_K)
Retrieve ==
    /\ g_pc = "RETRIEVING"
    /\ \E retrieved \in RetrieveOutcomes(TOP_K) : g_retrieved' = retrieved
    /\ retrieve_calls' = retrieve_calls + 1
    /\ Enter("RERANKING")
    /\ UNCHANGED <<ga_return, histVars, context_text, ga_reranked, rerank_calls,
                   groq_calls, ollama_calls>>
    /\ PhaseFrame

\* line 293: reranked = rerank(search_query, retrieved, keep_n=FINAL_CONTEXT)
Rerank ==
    /\ g_pc = "RERANKING"
    /\ \E reranked \in RerankOutcomes(g_retrieved, FINAL_CONTEXT) :
          ga_reranked' = [i \in DOMAIN reranked |-> reranked[i].text]
    /\ rerank_calls' = rerank_calls + 1
    /\ Enter("PROMPTING")
    /\ UNCHANGED <<ga_return, histVars, context_text, retrieve_calls,
                   groq_calls, ollama_calls, g_retrieved>>
    /\ PhaseFrame

\* lines 295-354: context_text and the prompt
BuildPrompt ==
    /\ g_pc = "PROMPTING"
    /\ context_text' = ContextText([i \in DOMAIN ga_reranked |-> [text |-> ga_reranked[i]]])
    /\ Enter("COMPLETING")
    /\ UNCHANGED <<ga_return, histVars, ga_reranked, retrieve_calls, rerank_calls,
                   groq_calls, ollama_calls, g_retrieved>>
    /\ PhaseFrame

\* call_llm, lines 139-140: response = query_groq(prompt); if response: return
PrimaryAttempt ==
    /\ g_pc = "COMPLETING"
    /\ groq_calls = 0
    /\ groq_calls' = 1
    /\ \E groqOk \in BOOLEAN :
          LET response == query_groq(groqOk)
          IN  IF response # <<>>
              THEN /\ ReturnAnswer(response)
                   /\ Enter("DONE")
              ELSE UNCHANGED <<ga_return, histVars, g_pc, g_trace>>
    /\ UNCHANGED <<context_text, ga_reranked, retrieve_calls, rerank_calls, ollama_calls,
                   g_retrieved>>
    /\ PhaseFrame

\* call_llm, line 142: return query_ollama(prompt)
FallbackAttempt ==
    /\ g_pc = "COMPLETING"
    /\ groq_calls = 1
    /\ ollama_calls' = ollama_calls + 1
    /\ \E ollamaOk \in BOOLEAN : ReturnAnswer(query_ollama(ollamaOk))
    /\ Enter("DONE")
    /\ UNCHANGED <<context_text, ga_reranked, retrieve_calls, rerank_calls, groq_calls,
                   g_retrieved>>
    /\ PhaseFrame

\* the steps of a call in progress
CallStep ==
    \/ GreetingTest
    \/ Augment
    \/ Retrieve
    \/ Rerank
    \/ BuildPrompt
    \/ PrimaryAttempt
    \/ FallbackAttempt

NextPhases ==
    \/ BuilderRun(TRUE)
    \/ \E id \in ChunkIds, text \in PassageTexts : FeedAppend(id, text)
    \/ \E embOk \in BOOLEAN, hasKey \in BOOLEAN : QueryEngineImport(embOk, hasKey)
    \/ \E query \in Queries, sid \in Sessions : CallArrives(query, sid)
    \/ CallStep

SpecPhases == Init /\ [][NextPhases]_vars

\* generate_answer is sequential code whose every step returns: the Groq
\* request has timeout=30, the Ollama subprocess timeout=120
SpecPhasesFair == SpecPhases /\ WF_vars(CallStep)

\* ------------------------------------------------------- concurrent requests
\* Requests served by threads of one process (app.py runs every browser
\* session in its own thread, all with session_id "streamlit_user"). A thread
\* is followed from the point where generate_answer has its answer: it calls
\* add_to_history for the user turn, then for the assistant turn. The steps of
\* add_to_history are its statements; no lock is taken anywhere.
otherVars == <<builderVars, faults, runVars, retrVars, searchVars, chunkVars, rerankVars,
               engineVars, answerVars, phaseVars>>

\* the turn a thread is appending in phase ph ("u": user, "a": assistant)
TurnOf(t, ph) ==
    IF ph = "u" THEN [role |-> "user", content |-> t_query[t]]
    ELSE [role |-> "assistant", content |-> t_answer[t]]

Phases == {"u", "a"}

Pc(ph, step) == <<ph, step>>

\* a request arrives: generate_answer runs up to call_llm's return
RequestArrives(t, sid) ==
    /\ t_pc[t] = Pc("-", "idle")
    /\ t_session' = [t_session EXCEPT ![t] = sid]
    /\ t_query' = [t_query EXCEPT ![t] = <<"question", t>>]
    /\ t_answer' = [t_answer EXCEPT ![t] = <<"answer", t>>]
    /\ t_pc' = [t_pc EXCEPT ![t] = Pc("u", "check")]
    /\ UNCHANGED <<histVars, otherVars>>

\* line 59: if session_id not in HISTORY_STORE
HistCheck(t) ==
    \E ph \in Phases :
        /\ t_pc[t] = Pc(ph, "check")
        /\ t_pc' = [t_pc EXCEPT ![t] =
                       IF t_session[t] \in DOMAIN HISTORY_STORE
                       THEN Pc(ph, "append") ELSE Pc(ph, "create")]
        /\ UNCHANGED <<histVars, t_session, t_query, t_answer, otherVars>>

\* line 60: HISTORY_STORE[session_id] = []
HistCreate(t) ==
    \E ph \in Phases :
        /\ t_pc[t] = Pc(ph, "create")
        /\ HISTORY_STORE' = MapPut(HISTORY_STORE, t_session[t], <<>>)
        /\ t_pc' = [t_pc EXCEPT ![t] = Pc(ph, "append")]
        /\ UNCHANGED <<turn_log, t_session, t_query, t_answer, otherVars>>

\* line 61: HISTORY_STORE[session_id].append(...)
HistAppend(t) ==
    \E ph \in Phases :
        /\ t_pc[t] = Pc(ph, "append")
        /\ HISTORY_STORE' = [HISTORY_STORE EXCEPT ![t_session[t]] = Append(@, TurnOf(t, ph))]
        /\ turn_log' = [turn_log EXCEPT ![t_session[t]] = Append(@, TurnOf(t, ph))]
        /\ t_pc' = [t_pc EXCEPT ![t] = Pc(ph, "cap")]
        /\ UNCHANGED <<t_session, t_query, t_answer, otherVars>>

\* lines 63-64: trim, then the next add_to_history call or the return
HistCap(t) ==
    \E ph \in Phases :
        /\ t_pc[t] = Pc(ph, "cap")
        /\ HISTORY_STORE' = [HISTORY_STORE EXCEPT ![t_session[t]] = CapHistory(@)]
        /\ t_pc' = [t_pc EXCEPT ![t] = IF ph = "u" THEN Pc("a", "check") ELSE Pc("-", "done")]
        /\ UNCHANGED <<turn_log, t_session, t_query, t_answer, otherVars>>

NextConcurrent ==
    \E t \in Threads :
        \/ \E sid \in Sessions : RequestArrives(t, sid)
        \/ HistCheck(t)
        \/ HistCreate(t)
        \/ HistAppend(t)
        \/ HistCap(t)

SpecConcurrent == Init /\ [][NextConcurrent]_vars

\* --------------------------------------------- Index Builder, write by write
\* The same main(), followed from one file write to the next: steps 1-6 run in
\* memory (BuilderBegin), then each artifact is written in the order of the
\* code.
NoMem == <<>>

WriteOrder == <<"index", "meta", "idmap", "sha", "whoosh", "revmap", "chunksdict", "pkl">>

PcAfter(pc) ==
    LET i == CHOOSE j \in DOMAIN WriteOrder : WriteOrder[j] = pc
    IN  IF i = Len(WriteOrder) THEN "idle" ELSE WriteOrder[i + 1]

\* steps 2-6 of main() up to the first write
BuilderBegin ==
    /\ b_pc = "idle"
    /\ feed # <<>>
    /\ LET st0 == load_existing_meta
           nc == IdentifyNew(feed, st0.id_to_sha)
           opened == IF nc # <<>> THEN OpenIndex(st0)
                     ELSE [faiss_idx |-> <<>>, saved_chunks |-> st0.saved_chunks,
                           id_to_index |-> st0.id_to_index]
           ids_array == IdsArray(NextFaissId(opened.id_to_index), Len(nc))
       IN  /\ Len(assigned) + Len(nc) <= MaxAssigned
           /\ b_mem' = [faiss_idx |-> AddWithIds(opened.faiss_idx, nc, ids_array),
                        saved_chunks |-> opened.saved_chunks \o nc,
                        id_to_index |-> PutAll(opened.id_to_index, SeqIds(nc), ids_array),
                        id_to_sha |-> PutAll(st0.id_to_sha, SeqIds(nc), SeqShas(nc))]
           /\ b_pc' = IF nc # <<>> THEN "index" ELSE "whoosh"
           /\ new_chunks' = nc
           /\ assigned' = assigned \o ids_array
    /\ feedAtRun' = feed
    /\ runStatus' = "running"
    /\ UNCHANGED <<feed, indexFile, metaFile, idMapFile, shaFile, revMapFile,
                   chunksDictFile, pklCache, whooshIx, faults, b_cut,
                   retrVars, searchVars, chunkVars, rerankVars, sessionVars>>

\* the next write of the run: lines 203-213, step 7, step 8
BuilderWrite ==
    /\ b_pc # "idle"
    /\ indexFile' = IF b_pc = "index" THEN Ok(b_mem.faiss_idx) ELSE indexFile
    /\ metaFile' = IF b_pc = "meta" THEN Ok(b_mem.saved_chunks) ELSE metaFile
    /\ idMapFile' = IF b_pc = "idmap" THEN Ok(b_mem.id_to_index) ELSE idMapFile
    /\ shaFile' = IF b_pc = "sha" THEN Ok(b_mem.id_to_sha) ELSE shaFile
    /\ whooshIx' = IF b_pc = "whoosh"
                   THEN Ok(WhooshCatchUp(whooshIx.val, b_mem.saved_chunks))
                   ELSE whooshIx
    /\ revMapFile' = IF b_pc = "revmap" THEN Ok(ReverseMap(b_mem.id_to_index))
                     ELSE revMapFile
    /\ chunksDictFile' = IF b_pc = "chunksdict" THEN Ok(ChunksDict(b_mem.saved_chunks))
                         ELSE chunksDictFile
    /\ pklCache' = IF b_pc = "pkl" THEN ClearPklCache(pklCache) ELSE pklCache
    /\ b_pc' = PcAfter(b_pc)
    /\ b_mem' = IF b_pc = "pkl" THEN NoMem ELSE b_mem
    /\ runStatus' = IF b_pc = "pkl" THEN "done" ELSE runStatus
    /\ UNCHANGED <<feed, new_chunks, feedAtRun, assigned, faults, b_cut,
                   retrVars, searchVars, chunkVars, rerankVars, sessionVars>>

NextWrites ==
    \/ \E id \in ChunkIds, text \in PassageTexts : FeedAppend(id, text)
    \/ BuilderBegin
    \/ BuilderWrite

SpecWrites == Init /\ [][NextWrites]_vars

\* the process is stopped between two writes of main() (killed, or an
\* exception of a later step): what was written stays, the rest is lost
InterruptRun ==
    /\ b_pc # "idle"
    /\ faults < MaxFaults
    /\ faults' = faults + 1
    /\ b_cut' = [pc |-> b_pc, feed |-> feedAtRun]
    /\ b_pc' = "idle"
    /\ b_mem' = NoMem
    /\ runStatus' = "interrupted"
    /\ UNCHANGED <<feed, indexFile, metaFile, idMapFile, shaFile, revMapFile,
                   chunksDictFile, pklCache, whooshIx, new_chunks, feedAtRun, assigned,
                   retrVars, searchVars, chunkVars, rerankVars, sessionVars>>

NextInterrupt ==
    \/ \E id \in ChunkIds, text \in PassageTexts : FeedAppend(id, text)
    \/ BuilderBegin
    \/ BuilderWrite
    \/ InterruptRun

SpecInterrupt == Init /\ [][NextInterrupt]_vars

\* ------------------------------------------------------------------ claims
\* the feed differs from the one the last run read in the text of exactly
\* the passage at position i (a passage has a non-empty text, before and after)
OnlyChanged(i) ==
    /\ Len(feed) = Len(feedAtRun)
    /\ i \in DOMAIN feed
    /\ feed[i].text # feedAtRun[i].text
    /\ feed[i].text # "" /\ feedAtRun[i].text # ""
    /\ \A j \in DOMAIN feed :
          /\ feed[j].id = feedAtRun[j].id
          /\ j # i => feed[j].text = feedAtRun[j].text

KeysInIndex == {indexFile.val[i].key : i \in DOMAIN indexFile.val}

\* C1: a run of the Index Builder on the feed that the previous run already
\* read leaves the vector index and the three ID maps as they were, and if it
\* completes it classifies no passage as new-or-changed.
C1_IdempotentIndexing ==
    [][(feedAtRun = feed /\ \E m \in BOOLEAN : BuilderRun(m))
        => /\ indexFile' = indexFile
           /\ idMapFile' = idMapFile
           /\ shaFile' = shaFile
           /\ (runStatus = "done" => revMapFile' = revMapFile)
           /\ (runStatus' # "model_failed" => new_chunks' = <<>>)]_vars

\* C1 witness: the last completed run embedded nothing on a feed whose two
\* passages are both in the index (so an earlier run embedded them).
C1_Witness ==
    /\ runStatus = "done" /\ feedAtRun = feed /\ new_chunks = <<>>
    /\ indexFile.st = "ok" /\ Len(indexFile.val) >= 2
    /\ \A i \in DOMAIN feed : feed[i].id \in DOMAIN idMapFile.val

\* C2 (as claimed): every surrogate key in the vector index has exactly one
\* entry in each of the three ID maps, and no two chunk_ids share a key.
C2_Claim ==
    /\ \A k \in KeysInIndex :
          /\ Cardinality({c \in DOMAIN idMapFile.val : idMapFile.val[c] = k}) = 1
          /\ ToString(k) \in DOMAIN revMapFile.val
          /\ revMapFile.val[ToString(k)] \in DOMAIN shaFile.val
    /\ \A c1, c2 \in DOMAIN idMapFile.val :
          idMapFile.val[c1] = idMapFile.val[c2] => c1 = c2

\* C5: when exactly one passage's text changed since the previous run, a
\* completed run classifies exactly that passage as new-or-changed, appends
\* exactly its vector to the index, and leaves the surrogate key and the
\* fingerprint of every other chunk_id as they were.
C5_OnlyChangedReembedded ==
    [][\A i \in 1..Cardinality(ChunkIds) :
         (OnlyChanged(i) /\ BuilderRun(TRUE))
           => /\ Len(new_chunks') = 1
              /\ new_chunks'[1].id = feed[i].id
              /\ new_chunks'[1].text = feed[i].text
              /\ Len(indexFile'.val) = Len(indexFile.val) + 1
              /\ \A j \in DOMAIN indexFile.val : indexFile'.val[j] = indexFile.val[j]
              /\ indexFile'.val[Len(indexFile'.val)].vec = Embed(feed[i].text)
              /\ \A c \in ChunkIds \ {feed[i].id} :
                    /\ (c \in DOMAIN idMapFile'.val) = (c \in DOMAIN idMapFile.val)
                    /\ (c \in DOMAIN shaFile'.val) = (c \in DOMAIN shaFile.val)
                    /\ c \in DOMAIN idMapFile.val => idMapFile'.val[c] = idMapFile.val[c]
                    /\ c \in DOMAIN shaFile.val => shaFile'.val[c] = shaFile.val[c]]_vars

\* C5 witness: the last run re-embedded exactly one passage, a changed one
\* (its chunk_id had a vector already), while another passage stayed indexed.
C5_Witness ==
    /\ runStatus = "done" /\ feedAtRun = feed /\ Len(new_chunks) = 1
    /\ Len(feed) = 2 /\ Len(indexFile.val) = 3
    /\ \A i \in DOMAIN feed : feed[i].id \in DOMAIN idMapFile.val

\* C6 (as claimed): every surrogate key handed to the vector index is strictly
\* greater than every key handed out before it.
C6_Claim ==
    \A i, j \in DOMAIN assigned : i < j => assigned[i] < assigned[j]

\* the serving process has loaded exactly what the builder last persisted
LoadedIsCurrent ==
    /\ r_loaded /\ embedder
    /\ faiss_index.st = "ok" /\ faiss_index = indexFile
    /\ metaFile.st = "ok" /\ metadata = metaFile.val

\* the chunk_id faiss_to_chunkid.json records for surrogate key idx has a record
HasPassage(idx) ==
    /\ idx # -1
    /\ ToString(idx) \in DOMAIN revMapFile.val
    /\ revMapFile.val[ToString(idx)] \in DOMAIN chunksDictFile.val

PassageOfKey(idx) == chunksDictFile.val[revMapFile.val[ToString(idx)]]

\* C3 (as claimed): the semantic hits of a search are, in neighbour order,
\* the passages that the surrogate_key -> chunk_id map records for the
\* returned keys; keys without such a passage are dropped.
C3_Claim ==
    LoadedIsCurrent =>
        LET kept == SelectSeq(I_keys, HasPassage)
        IN  /\ Len(faiss_hits) = Len(kept)
            /\ \A i \in DOMAIN faiss_hits :
                  /\ i \in DOMAIN kept
                  /\ faiss_hits[i].id = PassageOfKey(kept[i]).id
                  /\ faiss_hits[i].text = PassageOfKey(kept[i]).text

HitTexts(hits) == {hits[i].text : i \in DOMAIN hits}

FirstPos(hits, text) == CHOOSE i \in DOMAIN hits :
    hits[i].text = text /\ \A j \in 1..(i - 1) : hits[j].text # text

\* C7: the fused result has at most top_k entries with pairwise different
\* texts; it is a prefix of "lexical hits in rank order, then the semantic
\* hits whose text no lexical hit has, in neighbour order": every keyword
\* entry precedes every vector entry, and nothing is left out while there is
\* room within top_k.
C7_LexicalFirstFusion ==
    LET n == Len(final_results)
        texts == HitTexts(whoosh_hits) \cup HitTexts(faiss_hits)
    IN  /\ n = Min(top_k, Cardinality(texts))
        /\ \A i, j \in 1..n : final_results[i].text = final_results[j].text => i = j
        /\ \A i \in 1..n :
              IF final_results[i].text \in HitTexts(whoosh_hits)
              THEN final_results[i].source_type = "keyword"
              ELSE /\ final_results[i].source_type = "vector"
                   /\ final_results[i].text \in HitTexts(faiss_hits)
        /\ \A i, j \in 1..n : i < j =>
              LET a == final_results[i]
                  b == final_results[j]
              IN  /\ ~(a.source_type = "vector" /\ b.source_type = "keyword")
                  /\ (a.source_type = "keyword" /\ b.source_type = "keyword")
                        => FirstPos(whoosh_hits, a.text) < FirstPos(whoosh_hits, b.text)
                  /\ (a.source_type = "vector" /\ b.source_type = "vector")
                        => FirstPos(faiss_hits, a.text) < FirstPos(faiss_hits, b.text)
        /\ \A t \in HitTexts(whoosh_hits) :
              (\E i \in 1..n : final_results[i].source_type = "vector"
                  \/ FirstPos(whoosh_hits, final_results[i].text) > FirstPos(whoosh_hits, t))
                 => t \in HitTexts(final_results)

\* C7 witness: a search returned a lexical match followed by a semantic-only
\* match with another text, both within top_k.
C7_Witness ==
    /\ Len(final_results) = 2 /\ top_k = 2
    /\ final_results[1].source_type = "keyword"
    /\ final_results[2].source_type = "vector"
    /\ final_results[1].text # final_results[2].text

BodyPositions(chunk) == {chunk.body[i].pos : i \in DOMAIN chunk.body}

SentencePositions == {i \in DOMAIN doc : doc[i].kind = "sent"}

\* C4: when chunk_file_content returns, every sentence of the preamble and of
\* every heading body is in the body of some chunk; each body is a run of
\* consecutive sentences in source order, the chunks follow the source order,
\* and the last sentence of the document is in the last chunk (the trailing
\* partial accumulation is flushed).
C4_NoSentenceDropped ==
    c_pc = "done" =>
        /\ \A p \in SentencePositions :
              \E i \in DOMAIN final_chunks : p \in BodyPositions(final_chunks[i])
        /\ \A i \in DOMAIN final_chunks :
              LET body == final_chunks[i].body
              IN  /\ body # <<>>
                  /\ \A j \in 1..(Len(body) - 1) : body[j + 1].pos = body[j].pos + 1
        /\ \A i \in 1..(Len(final_chunks) - 1) :
              LET a == final_chunks[i].body
                  b == final_chunks[i + 1].body
              IN  a[Len(a)].pos < b[Len(b)].pos /\ a[1].pos <= b[1].pos
        /\ SentencePositions # {} =>
              LET last == final_chunks[Len(final_chunks)].body
              IN  \A p \in SentencePositions : p <= last[Len(last)].pos

\* C4 witness: a section overflowed (a chunk was closed) and its last, partial
\* accumulation, under the size threshold, was flushed as the final chunk.
C4_Witness ==
    /\ c_pc = "done" /\ Len(final_chunks) >= 2
    /\ LET n == Len(final_chunks)
       IN  /\ final_chunks[n].tag = final_chunks[n - 1].tag
           /\ WordsOf(final_chunks[n].body)
                 < EffectiveMax(MAX_WORDS, final_chunks[n].tag)

\* C8 (as claimed): the body of every emitted chunk has at most
\* max(50, max_words - tag words) words.
C8_Claim ==
    /\ \A i \in DOMAIN chunks :
          WordsOf(chunks[i].body) <= EffectiveMax(MAX_WORDS, chunks[i].tag)
    /\ \A i \in DOMAIN final_chunks :
          WordsOf(final_chunks[i].body) <= EffectiveMax(MAX_WORDS, final_chunks[i].tag)

\* C9 (as claimed): the window of trailing sentences that seeds the next chunk
\* after an overflow has at most overlap_words words.
C9_Claim == ov_count <= OVERLAP_WORDS

\* position of candidate i in the list ordered by score, high to low, equal
\* scores in their original order
RankOf(i) ==
    1 + Cardinality({j \in DOMAIN candidates :
            \/ candidates[j].rerank_score > candidates[i].rerank_score
            \/ /\ candidates[j].rerank_score = candidates[i].rerank_score
               /\ j < i})

\* C10: rerank returns the first min(keep_n, |candidates|) candidates of the
\* list ordered by descending rerank score, candidates of equal score in their
\* original relative order; an empty list returns the empty list and the
\* scoring model is not invoked.
C10_RerankStablePrefix ==
    rr_pc = "done" =>
        IF candidates = <<>>
        THEN rr_result = <<>> /\ predict_calls = 0
        ELSE /\ predict_calls = 1
             /\ Len(rr_result) = Min(keep_n, Len(candidates))
             /\ \A i \in DOMAIN candidates :
                   RankOf(i) <= Len(rr_result) => rr_result[RankOf(i)] = candidates[i]

\* C10 witness: three scored candidates, two of them with the same score and
\* both returned, and the list truncated to keep_n = 2
C10_Witness ==
    /\ rr_pc = "done" /\ Len(candidates) = 3 /\ keep_n = 2
    /\ Len(rr_result) = 2
    /\ rr_result[1].rerank_score = rr_result[2].rerank_score
    /\ rr_result[1].text # rr_result[2].text

\* the last n elements of s
LastN(s, n) == SubSeq(s, Len(s) - Min(n, Len(s)) + 1, Len(s))

\* C11: the history of a session never holds more than 15 turns; once more
\* than 15 turns have been appended it holds exactly 15, and it always equals
\* the most recently appended turns in append order.
C11_HistoryCapped ==
    \A sid \in Sessions :
        IF sid \in DOMAIN HISTORY_STORE
        THEN /\ Len(HISTORY_STORE[sid]) <= HISTORY_CAP
             /\ Len(turn_log[sid]) > HISTORY_CAP => Len(HISTORY_STORE[sid]) = HISTORY_CAP
             /\ HISTORY_STORE[sid] = LastN(turn_log[sid], HISTORY_CAP)
        ELSE turn_log[sid] = <<>>

\* C11 witness: more turns than the cap were appended to a session
C11_Witness ==
    \E sid \in Sessions :
        /\ sid \in DOMAIN HISTORY_STORE
        /\ Len(turn_log[sid]) > HISTORY_CAP + 1
        /\ Len(HISTORY_STORE[sid]) = HISTORY_CAP

\* C12: a query of at most 2 tokens that matches a greeting word returns the
\* canned greeting with no call to retrieve, rerank or a completion service,
\* and the user turn and the greeting reply are appended to the session history.
C12_GreetingShortcut ==
    (ga_calls > 0 /\ Len(ga_query) <= 2
        /\ \E i \in DOMAIN ga_query : ga_query[i] \in GreetingWords) =>
        /\ ga_return = GREETING_REPLY
        /\ retrieve_calls = 0 /\ rerank_calls = 0
        /\ groq_calls = 0 /\ ollama_calls = 0
        /\ ga_session \in DOMAIN HISTORY_STORE
        /\ LastN(HISTORY_STORE[ga_session], 2) =
              <<[role |-> "user", content |-> ga_query],
                [role |-> "assistant", content |-> GREETING_REPLY]>>

\* C12 witness: "hello" was answered on a fresh session
C12_Witness ==
    /\ ga_calls > 0 /\ ga_query = <<"hello">>
    /\ ga_return = GREETING_REPLY
    /\ Len(turn_log[ga_session]) = 2

\* C13 (as claimed): generate_answer never returns an empty text
C13_Claim == ga_calls > 0 => ga_return # <<>>

\* C18 (as claimed): when no vector index is loaded, a query that goes to
\* retrieval is not answered as if no relevant context existed: the prompt
\* does not carry the no-context marker and no completion service is called.
C18_Claim ==
    (ga_calls > 0 /\ retrieve_calls > 0
        /\ faiss_index.st # "ok" /\ fallback_index.st # "ok") =>
        /\ context_text # NO_CONTEXT
        /\ groq_calls = 0 /\ ollama_calls = 0

\* C14 (as claimed): whatever the interleaving of requests for one session,
\* once they have returned no appended turn is missing from the history and
\* every user turn is immediately followed by the assistant turn of the same
\* request.
C14_Claim ==
    (\A t \in Threads : t_pc[t] = Pc("-", "done")) =>
        \A sid \in Sessions :
            LET log == turn_log[sid]
                h == IF sid \in DOMAIN HISTORY_STORE THEN HISTORY_STORE[sid] ELSE <<>>
            IN  /\ \A i \in DOMAIN log : \E j \in DOMAIN h : h[j] = log[i]
                /\ \A j \in DOMAIN h :
                      h[j].role = "user" =>
                          /\ j + 1 \in DOMAIN h
                          /\ h[j + 1].role = "assistant"
                          /\ h[j + 1].content[2] = h[j].content[2]

\* the chunk_ids of the records of a passage list
IdsOf(records) == {records[i].id : i \in DOMAIN records}

\* C15 (as claimed): a run that finds the prior vector index unreadable leaves
\* a readable vector index, and the vector index, the passage list and the ID
\* maps (chunk_id -> key, chunk_id -> fingerprint, key -> chunk_id) describe
\* the same set of passages.
C15_Claim ==
    [][(indexFile.st = "corrupt" /\ BuilderRun(TRUE) /\ runStatus' = "done")
         => /\ indexFile'.st = "ok"
            /\ {indexFile'.val[i].key : i \in DOMAIN indexFile'.val}
                  = Range(idMapFile'.val)
            /\ IdsOf(metaFile'.val) = DOMAIN idMapFile'.val
            /\ DOMAIN shaFile'.val = DOMAIN idMapFile'.val
            /\ Range(revMapFile'.val) = DOMAIN idMapFile'.val]_vars

\* C16 (as claimed): whenever the persisted vector index can be read, every
\* surrogate key it holds is in the persisted chunk_id -> key map and in the
\* persisted key -> chunk_id map.
C16_Claim ==
    indexFile.st = "ok" =>
        \A k \in KeysInIndex :
            /\ idMapFile.st = "ok" /\ k \in Range(idMapFile.val)
            /\ revMapFile.st = "ok" /\ ToString(k) \in DOMAIN revMapFile.val

\* how many records of a list carry chunk_id id
CountOf(records, id) == Cardinality({j \in DOMAIN records : records[j].id = id})

\* C17 (as claimed): when the text of one passage changed under its chunk_id,
\* the run leaves exactly one record of that chunk_id, with the new text, in
\* the passage list and in the lexical index, and the vector index holds one
\* vector for it, that of the new text, and no vector without a chunk_id.
C17_Claim ==
    [][\A i \in 1..Cardinality(ChunkIds) :
         (OnlyChanged(i) /\ BuilderRun(TRUE))
           => LET c == feed[i]
              IN  /\ CountOf(metaFile'.val, c.id) = 1
                  /\ \A j \in DOMAIN metaFile'.val :
                        metaFile'.val[j].id = c.id => metaFile'.val[j].text = c.text
                  /\ CountOf(whooshIx'.val, c.id) = 1
                  /\ \A j \in DOMAIN whooshIx'.val :
                        whooshIx'.val[j].id = c.id => whooshIx'.val[j].text = c.text
                  /\ \A j \in DOMAIN indexFile'.val :
                        /\ indexFile'.val[j].key \in Range(idMapFile'.val)
                        /\ indexFile'.val[j].key = idMapFile'.val[c.id]
                              => indexFile'.val[j].vec = Embed(c.text)]_vars

\* C19 (as claimed): a lexical index that is absent or cannot be opened never
\* disables the vector path: when the embedding model and the vector artifacts
\* load, the vector index is loaded, and a search without lexical index
\* returns the first k semantic hits.
C19_Claim ==
    [][/\ \A embOk \in BOOLEAN :
            (RetrieverLoad(embOk) /\ ~load_faiss.raised) => faiss_index'.st = "ok"
       /\ \A k \in 1..MaxTopK :
            (HybridSearch(k) /\ embedder /\ faiss_index.st = "ok" /\ ~whoosh_index)
               => final_results' = SubSeq(faiss_hits', 1, Min(k, Len(faiss_hits')))]_vars

\* C20: no two records of the consolidated feed carry the same chunk_id.
C20_UniqueChunkIds ==
    \A i, j \in DOMAIN feed : feed[i].id = feed[j].id => i = j

\* C20 witness: the feed holds the chunks of every document, several of one
\* document, written by more than one run (docB was fed before docA, so not
\* by the same sorted run).
C20_Witness ==
    /\ \E i, j \in DOMAIN feed :
          i < j /\ feed[i].doc_id = "docB" /\ feed[j].doc_id = "docA"
    /\ \E i, j \in DOMAIN feed : i # j /\ feed[i].doc_id = feed[j].doc_id
    /\ AlreadyDoneIds(feed) = DocStems

\* C21 (as claimed): after a completed run every feed passage with a non-empty
\* id and text has, in the persisted vector index, the vector of its current
\* text under the surrogate key that id_to_index.json records for it.
C21_Claim ==
    [][(BuilderRun(TRUE) /\ runStatus' = "done")
         => \A i \in DOMAIN feed :
               (feed[i].id # "" /\ feed[i].text # "")
                  => /\ indexFile'.st = "ok" /\ idMapFile'.st = "ok"
                     /\ feed[i].id \in DOMAIN idMapFile'.val
                     /\ \E j \in DOMAIN indexFile'.val :
                           /\ indexFile'.val[j].key = idMapFile'.val[feed[i].id]
                           /\ indexFile'.val[j].vec = Embed(feed[i].text)]_vars

\* C26 (as claimed): a run embeds no passage whose fingerprint is that of a
\* passage indexed by an earlier run, and no two passages of the same
\* fingerprint, whatever their chunk_ids.
C26_Claim ==
    [][BuilderRun(TRUE)
         => /\ \A i \in DOMAIN new_chunks' :
                  new_chunks'[i].sha \notin Range(load_existing_meta.id_to_sha)
            /\ \A i, j \in DOMAIN new_chunks' :
                  new_chunks'[i].sha = new_chunks'[j].sha => i = j]_vars

\* the document holds no heading
NoHeading == \A i \in DOMAIN doc : doc[i].kind # "head"

\* C29 (as claimed): a non-empty document without headings is chunked as one
\* section tagged with the doc_id alone; the "<doc_id> - General" tag is only
\* given to the preamble of a document that has headings.
C29_Claim ==
    (c_pc = "done" /\ doc # <<>>) =>
        /\ NoHeading => \A i \in DOMAIN final_chunks : final_chunks[i].tag = <<DocId>>
        /\ \A i \in DOMAIN final_chunks :
              final_chunks[i].tag = <<DocId, "-", "General">> => ~NoHeading

\* C27: outside a builder run, whenever load_faiss succeeds the passage list it
\* returns is the one chunks.json holds: a pickle cache built from an older
\* passage list never survives a completed run.
C27_CacheInvalidated ==
    ~load_faiss.raised =>
        /\ metaFile.st = "ok"
        /\ load_faiss.metadata = metaFile.val
        /\ (pklCache.st = "ok" => pklCache.val = metaFile.val)

\* the retriever had loaded (and so cached) a passage list, and a later run
\* changed chunks.json and removed the cache
C27_Witness ==
    /\ r_loaded /\ metadata # <<>>
    /\ runStatus = "done" /\ new_chunks # <<>>
    /\ metaFile.st = "ok" /\ metaFile.val # metadata
    /\ pklCache = Absent

\* the texts the feed holds for a document, in feed order
DocTexts(consolidated, doc_id) ==
    LET r == SelectSeq(consolidated, LAMBDA c : c.doc_id = doc_id)
    IN  [i \in DOMAIN r |-> r[i].text]

\* C28 (as claimed): after process_all has run, the feed holds for every source
\* document the chunks of its current text and none of an older text.
C28_Claim ==
    [][process_all
         => \A doc_id \in DOMAIN json_dir :
               DocTexts(feed', doc_id) = json_dir[doc_id]]_vars

\* C24 (as claimed): in a call that reaches call_llm the primary provider is
\* tried once, the fallback at most once, and the fallback is tried exactly when
\* the primary gave no completion (an empty result or an error).
C24_Claim ==
    retrieve_calls = 1 =>
        /\ groq_calls = 1
        /\ ollama_calls <= 1
        /\ (ollama_calls = 1) <=> (ga_return # <<"groq", "answer">>)

\* C30: when retrieval and reranking leave no passage, the prompt carries the
\* no-context marker and the completion service is still called; a context
\* made of passages is never equal to the marker.
C30_EmptyContextMarked ==
    retrieve_calls = 1 =>
        /\ ga_reranked = <<>> => (context_text = NO_CONTEXT /\ groq_calls = 1)
        /\ ga_reranked # <<>> =>
              /\ context_text # NO_CONTEXT
              /\ Len(context_text) = 2 * Len(ga_reranked)
              /\ \A i \in DOMAIN ga_reranked : context_text[2 * i] = ga_reranked[i]

\* a question was answered with no passage retrieved
C30_Witness ==
    /\ retrieve_calls = 1 /\ rerank_calls = 1
    /\ ga_reranked = <<>>
    /\ context_text = NO_CONTEXT
    /\ groq_calls = 1

\* a run has completed on the feed as it is now; the last stopped run, if any,
\* worked on the same feed
RerunCompleted ==
    /\ runStatus = "done" /\ b_pc = "idle"
    /\ feedAtRun = feed
    /\ b_cut.pc # "none" => b_cut.feed = feed

\* C22 (as claimed): when a run stopped after writing index.faiss and before
\* writing chunks.json and the ID maps, a complete run on the same feed ends
\* with one vector per feed passage and no surrogate key on two vectors.
C22_Claim ==
    (RerunCompleted /\ b_cut.pc = "meta") =>
        /\ indexFile.st = "ok"
        /\ Len(indexFile.val) = Len(feed)
        /\ \A i, j \in DOMAIN indexFile.val :
              indexFile.val[i].key = indexFile.val[j].key => i = j

\* the chunk_ids of the persisted passage list
MetaIds == {metaFile.val[i].id : i \in DOMAIN metaFile.val}

\* C23 (as claimed): after a completed run every chunk_id of chunks.json is in
\* the lexical index exactly once, also when an earlier run on the same feed
\* stopped after index.faiss and chunks.json were written and before the
\* lexical index was committed.
C23_Claim ==
    (RerunCompleted /\ b_cut.pc \in {"none", "idmap", "sha", "whoosh"}) =>
        \A id \in MetaIds :
            Cardinality({i \in DOMAIN whooshIx.val : whooshIx.val[i].id = id}) = 1

IsPrefix(p, q) == Len(p) <= Len(q) /\ \A i \in DOMAIN p : p[i] = q[i]

GreetingPath == <<"IDLE", "GREETING_SHORTCUT">>

AnswerPath ==
    <<"IDLE", "AUGMENTING", "RETRIEVING", "RERANKING", "PROMPTING", "COMPLETING", "DONE">>

\* the phases entered so far are the beginning of one of the two paths
C25_OnPath == IsPrefix(g_trace, GreetingPath) \/ IsPrefix(g_trace, AnswerPath)

\* every call reaches GREETING_SHORTCUT or DONE
C25_Terminates == (g_pc = "IDLE") ~> (g_pc \in Terminal)

\* a call that ends without a completion of the primary provider has made one
\* fallback attempt
C25_FallbackBeforeDone ==
    (g_pc = "DONE" /\ ga_return # <<"groq", "answer">>) => ollama_calls = 1

\* C25 (as claimed): every generate_answer call goes IDLE -> GREETING_SHORTCUT
\* or IDLE -> AUGMENTING -> RETRIEVING -> RERANKING -> PROMPTING -> COMPLETING
\* -> DONE, each phase at most once and in this order, reaches GREETING_SHORTCUT
\* or DONE, and reaches DONE after a completion failure only through one
\* fallback attempt.
C25_Claim ==
    /\ [](C25_OnPath /\ C25_FallbackBeforeDone)
    /\ C25_Terminates

\* the path and the termination alone
C25_PathAndTermination == []C25_OnPath /\ C25_Terminates

====
